---- MODULE Spec2Model ----
(***************************************************************************)
(* State-machine model of the flag quiz session engine (js/game.js) with   *)
(* the parts of the country service it calls (getCountriesByDifficulty,    *)
(* getRandomCountry, generateWrongAnswers).                                *)
(*                                                                         *)
(* JavaScript arrays are modelled as sequences; array indices that the     *)
(* code stores (correctOptionIndex, selectedIndex) keep their 0-based      *)
(* values.  Math.random() is an input: every place that draws an index     *)
(* Math.floor(Math.random() * n) is modelled by the drawn index in 0..n-1. *)
(***************************************************************************)
EXTENDS Integers, Sequences, FiniteSets, Bags, TLC

VARIABLES
    gameState,   \* the gameState singleton of js/game.js
    timers,      \* number of pending setTimeout callbacks scheduled by checkAnswer
    awaiting,    \* bag of startGame calls suspended at `await fetchCountries()`,
                 \* each identified by its local `difficulty`
    currentHighlight, \* the map module's currentHighlight: the country whose
                 \* marker is on the map, or Null
    emitted,     \* notifications sent and errors raised by the last operation
    localStorage, \* the two localStorage items of the country service, the
                 \* cached countries and the expiry time: <<value>> for an
                 \* item that is present, <<>> for one that is absent
    now          \* the wall clock (new Date().getTime()), in hours

vars == <<gameState, timers, awaiting, currentHighlight, emitted, localStorage, now>>

-----------------------------------------------------------------------------
(* Bounds of the model *)

\* pending setTimeout callbacks explored at the same time
MaxTimers == 2
\* startGame calls explored in flight (awaiting country data) at the same time
MaxPending == 2
\* resolution of the random source in the session runs: Math.random() returns
\* one of k / RandomLevels, k = 0 .. RandomLevels - 1
RandomLevels == 1

-----------------------------------------------------------------------------
(* Country data *)

Null == "null"

\* size of the large reference dataset: one country more than the largest
\* tier's pool size (150)
LargeSize == 151

\* a reference dataset of LargeSize countries, in data order
DataLarge ==
    <<"X001", "X002", "X003", "X004", "X005", "X006", "X007", "X008",
      "X009", "X010", "X011", "X012", "X013", "X014", "X015", "X016",
      "X017", "X018", "X019", "X020", "X021", "X022", "X023", "X024",
      "X025", "X026", "X027", "X028", "X029", "X030", "X031", "X032",
      "X033", "X034", "X035", "X036", "X037", "X038", "X039", "X040",
      "X041", "X042", "X043", "X044", "X045", "X046", "X047", "X048",
      "X049", "X050", "X051", "X052", "X053", "X054", "X055", "X056",
      "X057", "X058", "X059", "X060", "X061", "X062", "X063", "X064",
      "X065", "X066", "X067", "X068", "X069", "X070", "X071", "X072",
      "X073", "X074", "X075", "X076", "X077", "X078", "X079", "X080",
      "X081", "X082", "X083", "X084", "X085", "X086", "X087", "X088",
      "X089", "X090", "X091", "X092", "X093", "X094", "X095", "X096",
      "X097", "X098", "X099", "X100", "X101", "X102", "X103", "X104",
      "X105", "X106", "X107", "X108", "X109", "X110", "X111", "X112",
      "X113", "X114", "X115", "X116", "X117", "X118", "X119", "X120",
      "X121", "X122", "X123", "X124", "X125", "X126", "X127", "X128",
      "X129", "X130", "X131", "X132", "X133", "X134", "X135", "X136",
      "X137", "X138", "X139", "X140", "X141", "X142", "X143", "X144",
      "X145", "X146", "X147", "X148", "X149", "X150", "X151">>

\* position of a country of DataLarge in it
LargeIndex ==
    [c \in {DataLarge[i] : i \in 1..LargeSize} |->
        CHOOSE i \in 1..LargeSize : DataLarge[i] = c]

\* region of a country record (country.region)
Region(c) ==
    CASE c = "US" -> "Americas"
      [] c = "CA" -> "Americas"
      [] c = "DE" -> "Europe"
      [] c = "FR" -> "Europe"
      [] c = "NG" -> "Africa"
      [] c = "JP" -> "Asia"
      [] c = "BR" -> "Americas"
      [] c = "MX" -> "Americas"
      [] c \in {"GB", "IT", "ES", "NL", "SE"} -> "Europe"
      [] c \in DOMAIN LargeIndex ->
            CASE LargeIndex[c] % 10 = 0 -> "Europe"
              [] LargeIndex[c] % 10 = 1 -> "Asia"
              [] OTHER -> "Africa"
      [] OTHER    -> "Antarctic"

\* population of a country record, in millions (country.population)
Population(c) ==
    CASE c = "US" -> 329
      [] c = "CA" -> 38
      [] c = "DE" -> 83
      [] c = "FR" -> 67
      [] c = "NG" -> 206
      [] c = "JP" -> 126
      [] c = "BR" -> 212
      [] c = "MX" -> 128
      [] c = "GB" -> 68
      [] c = "IT" -> 60
      [] c = "ES" -> 47
      [] c = "NL" -> 17
      [] c = "SE" -> 10
      [] c \in DOMAIN LargeIndex -> ((LargeIndex[c] * 37 + 5) % LargeSize) + 1
      [] OTHER    -> 0

\* coordinates of a country record (country.latlng), in whole degrees; <<>>
\* stands for the undefined latlng of a record that has none
Latlng(c) ==
    CASE c = "US" -> <<38, -97>>
      [] c = "CA" -> <<60, -95>>
      [] c = "MX" -> <<23, -102>>
      [] c = "DE" -> <<51, 9>>
      [] c = "FR" -> <<46, 2>>
      [] c = "GB" -> <<54, -2>>
      [] c = "IT" -> <<42, 12>>
      [] c = "ES" -> <<40, -4>>
      [] c = "NL" -> <<52, 5>>
      [] c = "SE" -> <<62, 15>>
      [] c = "JP" -> <<36, 138>>
      [] c = "BR" -> <<-10, -55>>
      [] c = "NG" -> <<10, 8>>
      [] c \in DOMAIN LargeIndex -> <<0, 0>>
      [] OTHER    -> <<>>

\* Datasets fetchCountries may resolve to (cca2 codes, in data order).
\* DataNarrow: the beginner pool has only three countries, the intermediate
\* and the advanced pool have four.
DataNarrow == <<"US", "DE", "JP", "FR">>
\* DataEmbedded: the first ten records of the embedded fallback data; every
\* pool has ten countries, as many as a beginner session has questions.
DataEmbedded == <<"US", "CA", "MX", "DE", "FR", "GB", "IT", "ES", "NL", "SE">>
\* the datasets of the session runs
Datasets == {DataNarrow, DataEmbedded}
\* DataWide: every pool has four countries
DataWide == <<"CA", "DE", "FR", "US">>

Difficulties == {"beginner", "intermediate", "advanced"}
\* the difficulties sessions are started with in the session runs (of a tier the
\* engine reads only the question count and the pool; the advanced tier is
\* left to the policy operators and the question runs)
SessionDifficulties == {"beginner", "intermediate"}
\* difficulties a caller may pass: the enumeration, a name outside it and the
\* empty string
DifficultyInputs == SessionDifficulties \cup {"expert", ""}

-----------------------------------------------------------------------------
(* Sequence helpers standing for Array.prototype methods *)

Range(s) == {s[i] : i \in 1..Len(s)}

\* array.includes(x)
Includes(s, x) == \E i \in 1..Len(s) : s[i] = x

\* array.slice(0, n)
Slice(s, n) == SubSeq(s, 1, IF n < Len(s) THEN n ELSE Len(s))

\* array.findIndex(e => e === x), 0-based, -1 when absent
FindIndex(s, x) ==
    IF Includes(s, x)
    THEN (CHOOSE i \in 1..Len(s) : s[i] = x /\ \A k \in 1..(i-1) : s[k] # x) - 1
    ELSE -1

\* an exchange that loses an element: position i receives s[j], position j
\* keeps its own
SwapOverwriting(s, i, j) == [s EXCEPT ![i+1] = s[j+1]]

\* [a[i], a[j]] = [a[j], a[i]] with 0-based i, j
Swap(s, i, j) == [s EXCEPT ![i+1] = s[j+1], ![j+1] = s[i+1]]

\* Math.round(n / d * 100) for n >= 0, d > 0 (round half up)
RoundPercent(n, d) == (200 * n + d) \div (2 * d)

\* array.sort((a, b) => (b.population || 0) - (a.population || 0)):
\* a stable sort by descending population
RECURSIVE InsertByPopulation(_, _)
InsertByPopulation(sorted, c) ==
    IF sorted = <<>> THEN <<c>>
    ELSE IF Population(Head(sorted)) >= Population(c)
         THEN <<Head(sorted)>> \o InsertByPopulation(Tail(sorted), c)
         ELSE <<c>> \o sorted

RECURSIVE SortByPopulation(_)
SortByPopulation(s) ==
    IF s = <<>> THEN <<>>
    ELSE InsertByPopulation(SortByPopulation(SubSeq(s, 1, Len(s) - 1)), s[Len(s)])

-----------------------------------------------------------------------------
(* Difficulty policy *)

\* property names every object inherits from Object.prototype (some of them);
\* DIFFICULTY_CONFIG[name] finds the inherited member for these
ObjectPrototypeKeys == {"constructor", "toString", "__proto__"}

\* the member of Object.prototype a lookup finds: a function (or, for
\* __proto__, Object.prototype itself), which is truthy and has no countries,
\* regions or questionsCount
InheritedMember(key) == [inherited |-> key]

\* getDifficultyConfig of js/game.js:
\* DIFFICULTY_CONFIG[difficulty] || DIFFICULTY_CONFIG.beginner, a property
\* lookup on an object literal: unknown names fall back to beginner unless
\* Object.prototype has a member of that name
getDifficultyConfig(difficulty) ==
    CASE difficulty = "intermediate" ->
            [countries |-> 60, questionsCount |-> 15,
             regions |-> {"Europe", "Asia", "North America", "South America"}]
      [] difficulty = "advanced" ->
            [countries |-> 150, questionsCount |-> 20, regions |-> {"all"}]
      [] difficulty \in ObjectPrototypeKeys -> InheritedMember(difficulty)
      [] OTHER ->
            [countries |-> 25, questionsCount |-> 10,
             regions |-> {"Europe", "North America"}]

\* DIFFICULTY_CONFIG of the country service, read as
\* DIFFICULTY_CONFIG[difficulty] || DIFFICULTY_CONFIG.beginner
DIFFICULTY_CONFIG(difficulty) ==
    CASE difficulty = "intermediate" ->
            [countries |-> 60, questionsCount |-> 15,
             regions |-> {"Europe", "Asia", "Americas", "Oceania"}]
      [] difficulty = "advanced" ->
            [countries |-> 150, questionsCount |-> 20, regions |-> {"all"}]
      [] difficulty \in ObjectPrototypeKeys -> InheritedMember(difficulty)
      [] OTHER ->
            [countries |-> 25, questionsCount |-> 10,
             regions |-> {"Europe", "Americas"}]

\* getCountriesByDifficulty throws a TypeError at config.regions.includes when
\* the lookup found an inherited member, whose regions is undefined
getCountriesByDifficultyThrows(countries, difficulty) ==
    countries # <<>> /\ difficulty \in ObjectPrototypeKeys

\* getCountriesByDifficulty: region filter, population sort for beginner and
\* intermediate only, truncation to the tier's pool size
getCountriesByDifficulty(countries, difficulty) ==
    IF countries = <<>> THEN <<>>
    ELSE LET config == DIFFICULTY_CONFIG(difficulty)
             filtered == IF config.regions # {"all"}
                         THEN SelectSeq(countries, LAMBDA c : Region(c) \in config.regions)
                         ELSE countries
             sorted == IF difficulty \in {"beginner", "intermediate"}
                       THEN SortByPopulation(filtered)
                       ELSE filtered
         IN  Slice(sorted, config.countries)

-----------------------------------------------------------------------------
(* Random selection and shuffling *)

\* the index sequences a Fisher-Yates pass over n elements can draw:
\* js[k] is the j drawn at i = n - k, so 0 <= js[k] <= n - k
RECURSIVE ShuffleDraws(_)
ShuffleDraws(n) ==
    IF n < 2 THEN {<<>>}
    ELSE {<<j>> \o rest : j \in 0..(n-1), rest \in ShuffleDraws(n - 1)}

RECURSIVE ShuffleFrom(_, _, _)
ShuffleFrom(s, js, i) ==
    IF i < 1 THEN s
    ELSE ShuffleFrom(Swap(s, i, js[Len(s) - i]), js, i - 1)

\* shuffleArray: Fisher-Yates on a copy, for i from length-1 down to 1
shuffleArray(array, js) == ShuffleFrom(array, js, Len(array) - 1)

\* a call shuffleArray(array) seen from the caller: the array passed in as it
\* is after the call (the function shuffles a copy, [...array]) and the array
\* returned
shuffleArrayEffect(array, js) ==
    [input |-> array, result |-> shuffleArray(array, js)]

\* getRandomCountry(countries) with drawn index r
getRandomCountry(countries, r) ==
    IF countries = <<>> THEN Null ELSE countries[r + 1]

\* the countries getRandomUnusedCountry filters as not yet used
AvailableCountries(countries, usedCountries) ==
    SelectSeq(countries, LAMBDA c : ~Includes(usedCountries, c))

\* indices getRandomUnusedCountry can draw
PickDraws(countries, usedCountries) ==
    LET avail == AvailableCountries(countries, usedCountries)
    IN  IF countries = <<>> THEN {0}
        ELSE IF avail = <<>> THEN 0..(Len(countries) - 1)
        ELSE 0..(Len(avail) - 1)

\* getRandomUnusedCountry that draws from the whole pool without looking at
\* the used list
getRandomUnusedCountryAny(gs, r) ==
    IF gs.countries = <<>> THEN [country |-> Null, gs |-> gs]
    ELSE [country |-> gs.countries[(r % Len(gs.countries)) + 1], gs |-> gs]

\* getRandomUnusedCountry that gives up (returns null) when every pool country
\* is used, instead of starting the used list over
getRandomUnusedCountryNoWrap(gs, r) ==
    IF gs.countries = <<>> THEN [country |-> Null, gs |-> gs]
    ELSE LET avail == AvailableCountries(gs.countries, gs.usedCountries)
         IN  IF avail = <<>>
             THEN [country |-> Null, gs |-> gs]
             ELSE [country |-> avail[r + 1], gs |-> gs]

\* getRandomUnusedCountry that, when every pool country is used, draws from the
\* whole pool but leaves the used list as it is
getRandomUnusedCountryKeepUsed(gs, r) ==
    IF gs.countries = <<>> THEN [country |-> Null, gs |-> gs]
    ELSE LET avail == AvailableCountries(gs.countries, gs.usedCountries)
         IN  IF avail = <<>>
             THEN [country |-> getRandomCountry(gs.countries, r), gs |-> gs]
             ELSE [country |-> avail[r + 1], gs |-> gs]

\* getRandomUnusedCountry that takes the chosen country out of the pool
getRandomUnusedCountryRemoving(gs, r) ==
    IF gs.countries = <<>> THEN [country |-> Null, gs |-> gs]
    ELSE LET avail == AvailableCountries(gs.countries, gs.usedCountries)
             chosen == IF avail = <<>> THEN getRandomCountry(gs.countries, r)
                       ELSE avail[r + 1]
         IN  [country |-> chosen,
              gs |-> [gs EXCEPT
                        !.usedCountries = IF avail = <<>> THEN <<>> ELSE @,
                        !.countries = SelectSeq(@, LAMBDA c : c # chosen)]]

\* getRandomUnusedCountry(gameState.countries, gameState.usedCountries): the
\* chosen country and the game state, whose used list it empties when every
\* pool country is used
getRandomUnusedCountry(gs, r) ==
    IF gs.countries = <<>> THEN [country |-> Null, gs |-> gs]
    ELSE LET avail == AvailableCountries(gs.countries, gs.usedCountries)
         IN  IF avail = <<>>
             THEN [country |-> getRandomCountry(gs.countries, r),
                   gs |-> [gs EXCEPT !.usedCountries = <<>>]]
             ELSE [country |-> avail[r + 1], gs |-> gs]

\* candidates that leave out the correct country only, whatever was used
CountriesToUseIgnoringUsed(correctCountry, allCountries, count, usedCountries) ==
    SelectSeq(allCountries, LAMBDA c : c # correctCountry)

\* candidates without the relaxation: the unused countries other than the
\* correct one, however few
CountriesToUseNoRelaxation(correctCountry, allCountries, count, usedCountries) ==
    SelectSeq(allCountries,
              LAMBDA c : c # correctCountry /\ ~Includes(usedCountries, c))

\* the candidates generateWrongAnswers shuffles
CountriesToUse(correctCountry, allCountries, count, usedCountries) ==
    LET availableCountries ==
            SelectSeq(allCountries,
                      LAMBDA c : c # correctCountry /\ ~Includes(usedCountries, c))
    IN  IF Len(availableCountries) >= count
        THEN availableCountries
        ELSE SelectSeq(allCountries, LAMBDA c : c # correctCountry)

\* generateWrongAnswers that takes the first pool entries, the correct country
\* not excluded
generateWrongAnswersKeepCorrect(correctCountry, allCountries, count, usedCountries, js) ==
    IF correctCountry = Null \/ Len(allCountries) < count + 1 THEN <<>>
    ELSE Slice(allCountries, count)

\* generateWrongAnswers(correctCountry, allCountries, count, usedCountries)
generateWrongAnswers(correctCountry, allCountries, count, usedCountries, js) ==
    IF correctCountry = Null \/ Len(allCountries) < count + 1 THEN <<>>
    ELSE Slice(shuffleArray(CountriesToUse(correctCountry, allCountries, count,
                                           usedCountries), js), count)

\* draws available to generateWrongAnswers
WrongAnswerDraws(correctCountry, allCountries, count, usedCountries) ==
    IF correctCountry = Null \/ Len(allCountries) < count + 1 THEN {<<>>}
    ELSE ShuffleDraws(Len(CountriesToUse(correctCountry, allCountries, count,
                                         usedCountries)))

\* generateAnswerOptions that shuffles the options array already shown, in
\* place, when it holds the correct country, instead of a fresh array
generateAnswerOptionsShuffleShown(correctCountry, allCountries, usedCountries, js1, js2) ==
    IF correctCountry = Null \/ Len(allCountries) < 4
    THEN [error |-> "Insufficient data to generate answer options",
          options |-> <<>>, correctIndex |-> -1]
    ELSE LET wrongAnswers == generateWrongAnswers(correctCountry, allCountries, 3,
                                                  usedCountries, js1)
         IN  IF Len(wrongAnswers) < 3
             THEN [error |-> "Could not generate enough wrong answers",
                   options |-> <<>>, correctIndex |-> -1]
             ELSE LET shuffledOptions ==
                          shuffleArray(IF Includes(gameState.options, correctCountry)
                                       THEN gameState.options
                                       ELSE <<correctCountry>> \o wrongAnswers, js2)
                  IN  [error |-> "",
                       options |-> shuffledOptions,
                       correctIndex |-> FindIndex(shuffledOptions, correctCountry)]

\* generateAnswerOptions(correctCountry, allCountries), reading
\* gameState.usedCountries; error is the message of the Error it throws
generateAnswerOptions(correctCountry, allCountries, usedCountries, js1, js2) ==
    IF correctCountry = Null \/ Len(allCountries) < 4
    THEN [error |-> "Insufficient data to generate answer options",
          options |-> <<>>, correctIndex |-> -1]
    ELSE LET wrongAnswers == generateWrongAnswers(correctCountry, allCountries, 3,
                                                  usedCountries, js1)
         IN  IF Len(wrongAnswers) < 3
             THEN [error |-> "Could not generate enough wrong answers",
                   options |-> <<>>, correctIndex |-> -1]
             ELSE LET shuffledOptions ==
                          shuffleArray(<<correctCountry>> \o wrongAnswers, js2)
                  IN  [error |-> "",
                       options |-> shuffledOptions,
                       correctIndex |-> FindIndex(shuffledOptions, correctCountry)]

-----------------------------------------------------------------------------
(* The engine's operations, as functions of the machine state                *)
(* m = [gs, hl, out]: gameState, the map highlight, the notifications so far *)

\* the gameState object as declared, which is also what resetGameState writes
InitialGameState ==
    [currentQuestion    |-> 0,
     totalQuestions     |-> 10,
     score              |-> 0,
     difficulty         |-> "beginner",
     countries          |-> <<>>,
     currentCountry     |-> Null,
     options            |-> <<>>,
     correctOptionIndex |-> 0,
     isGameActive       |-> FALSE,
     isAnswered         |-> FALSE,
     usedCountries      |-> <<>>]

\* resetGameState
resetGameState(gs) == InitialGameState

\* localStorage without the items of the country service
EmptyStorage == [countries |-> <<>>, expiry |-> <<>>]

\* a call of a presentation or map function, or an error reported
Note(call, arg) == [call |-> call, arg |-> arg]

Emit(m, notes) == [m EXCEPT !.out = @ \o notes]

\* calculateProgress
calculateProgress(gs) ==
    IF gs.totalQuestions = 0 THEN 0
    ELSE RoundPercent(gs.currentQuestion, gs.totalQuestions)

\* calculateAccuracy
calculateAccuracy(gs) ==
    IF gs.currentQuestion = 0 THEN 0
    ELSE RoundPercent(gs.score, gs.currentQuestion)

\* calculateCurrentAccuracy
calculateCurrentAccuracy(gs) ==
    LET questionsAnswered == gs.currentQuestion + 1
    IN  IF questionsAnswered = 0 THEN 0
        ELSE RoundPercent(gs.score, questionsAnswered)

\* getGameStatus (the numeric and boolean members)
getGameStatus(gs) ==
    [isActive |-> gs.isGameActive,
     difficulty |-> gs.difficulty,
     currentQuestion |-> gs.currentQuestion,
     totalQuestions |-> gs.totalQuestions,
     score |-> gs.score,
     accuracy |-> calculateCurrentAccuracy(gs),
     progress |-> calculateProgress(gs),
     isAnswered |-> gs.isAnswered,
     remainingQuestions |-> gs.totalQuestions - gs.currentQuestion,
     countriesAvailable |-> Len(gs.countries)]

\* getScoreStatistics
getScoreStatistics(gs) ==
    LET questionsAnswered == gs.currentQuestion
        accuracy == IF questionsAnswered > 0
                    THEN RoundPercent(gs.score, questionsAnswered)
                    ELSE 0
    IN  [score |-> gs.score,
         totalQuestions |-> gs.totalQuestions,
         questionsAnswered |-> questionsAnswered,
         accuracy |-> accuracy,
         correctAnswers |-> gs.score,
         incorrectAnswers |-> questionsAnswered - gs.score,
         remainingQuestions |-> gs.totalQuestions - questionsAnswered]

\* validateGameState
validateGameState(gs) ==
    /\ gs.score >= 0
    /\ gs.currentQuestion >= 0
    /\ gs.totalQuestions > 0
    /\ gs.score <= gs.currentQuestion
    /\ gs.currentQuestion <= gs.totalQuestions

\* clearHighlight that leaves the marker on the map
clearHighlightKeepingMarker(m) == m

\* clearHighlight of the map module
clearHighlight(m) == [m EXCEPT !.hl = Null]

\* highlightCountry(countryCode, coordinates) of the map module: the call is
\* noted; it replaces the current highlight unless the coordinates are
\* missing or incomplete
highlightCountry(m, countryCode, coordinates) ==
    Emit(IF Len(coordinates) < 2 THEN m ELSE [m EXCEPT !.hl = countryCode],
         <<Note("highlightCountry", <<countryCode, coordinates>>)>>)

\* updateScore of the presentation
updateScore(m, score, total) ==
    Emit(m, <<Note("updateScore", <<score, total>>)>>)

\* showScreen of the presentation
showScreen(m, screenName) ==
    Emit(m, <<Note("showScreen", <<screenName>>)>>)

\* endGame
endGame(m) ==
    LET m1 == [m EXCEPT !.gs.isGameActive = FALSE]
        finalScore == <<m1.gs.score, m1.gs.totalQuestions,
                        calculateAccuracy(m1.gs), m1.gs.currentQuestion>>
    IN  showScreen(Emit(m1, <<Note("showFinalResults", finalScore)>>), "result")

\* updateScoreDisplay
updateScoreDisplay(m) ==
    updateScore(m, m.gs.score, m.gs.currentQuestion + 1)

\* updateProgressDisplay
updateProgressDisplay(m) ==
    Emit(m, <<Note("updateQuestionCounter",
                   <<m.gs.currentQuestion + 1, m.gs.totalQuestions>>),
              Note("updateProgress", <<calculateProgress(m.gs)>>)>>)

\* initializeScoreDisplay
initializeScoreDisplay(m) ==
    Emit(updateScore(m, 0, 0),
         <<Note("updateQuestionCounter", <<0, m.gs.totalQuestions>>),
           Note("updateProgress", <<0>>)>>)

\* the body of nextQuestion's try block with the draws r (country), js1
\* (distractor shuffle) and js2 (option shuffle); an Error thrown inside it
\* is caught and logged, leaving what was assigned before it
GenerateQuestion(m, r, js1, js2) ==
    LET m1 == Emit(clearHighlight([m EXCEPT !.gs.isAnswered = FALSE]),
                   <<Note("clearHighlight", <<>>), Note("hideFeedback", <<>>)>>)
        picked == getRandomUnusedCountry(m1.gs, r)
        m2 == [m1 EXCEPT !.gs = [picked.gs EXCEPT !.currentCountry = picked.country]]
    IN  IF picked.country = Null
        THEN Emit(m2, <<Note("error", <<"No country available for question">>)>>)
        ELSE LET m3 == [m2 EXCEPT !.gs.usedCountries = Append(@, picked.country)]
                 answerOptions == generateAnswerOptions(m3.gs.currentCountry,
                                      m3.gs.countries, m3.gs.usedCountries, js1, js2)
             IN  IF answerOptions.error # ""
                 THEN Emit(m3, <<Note("error", <<answerOptions.error>>)>>)
                 ELSE LET m4 == [m3 EXCEPT
                                   !.gs.options = answerOptions.options,
                                   !.gs.correctOptionIndex = answerOptions.correctIndex]
                      IN  Emit(m4,
                            <<Note("displayFlag", <<m4.gs.currentCountry>>),
                              Note("showOptions", m4.gs.options),
                              Note("updateQuestionCounter",
                                   <<m4.gs.currentQuestion + 1, m4.gs.totalQuestions>>),
                              Note("updateProgress", <<calculateProgress(m4.gs)>>)>>)

\* Math.floor(Math.random() * n) for Math.random() = k / RandomLevels
LevelIndex(k, n) == (k * n) \div RandomLevels

\* the indices Math.floor(Math.random() * n) takes in the session runs
RandomIndices(n) == {LevelIndex(k, n) : k \in 0..(RandomLevels - 1)}

\* the index sequences a Fisher-Yates pass over n elements draws in the
\* session runs
RECURSIVE LevelShuffleDraws(_)
LevelShuffleDraws(n) ==
    IF n < 2 THEN {<<>>}
    ELSE {<<j>> \o rest : j \in RandomIndices(n), rest \in LevelShuffleDraws(n - 1)}

\* every result nextQuestion's try block can have, over the random draws
GenerateQuestionOutcomes(m) ==
    LET n == IF m.gs.countries = <<>> THEN 1
             ELSE IF AvailableCountries(m.gs.countries, m.gs.usedCountries) = <<>>
                  THEN Len(m.gs.countries)
                  ELSE Len(AvailableCountries(m.gs.countries, m.gs.usedCountries))
    IN  UNION {
          LET picked == getRandomUnusedCountry(m.gs, r)
              used == IF picked.country = Null THEN picked.gs.usedCountries
                      ELSE Append(picked.gs.usedCountries, picked.country)
              n1 == IF picked.country = Null \/ Len(m.gs.countries) < 4 THEN 0
                    ELSE Len(CountriesToUse(picked.country, m.gs.countries, 3, used))
          IN  { GenerateQuestion(m, r, js1, js2) :
                  js1 \in LevelShuffleDraws(n1), js2 \in LevelShuffleDraws(4) }
          : r \in RandomIndices(n) }

\* nextQuestion: the set of machine states it can leave
nextQuestion(m) ==
    IF ~m.gs.isGameActive \/ m.gs.currentQuestion >= m.gs.totalQuestions
    THEN {endGame(m)}
    ELSE GenerateQuestionOutcomes(m)

\* handleCorrectAnswer; it throws a TypeError at currentCountry.latlng when
\* there is no current country, and asks for the highlight only when the
\* current country has coordinates
handleCorrectAnswer(m) ==
    LET m1 == updateProgressDisplay(updateScoreDisplay(
                  [m EXCEPT !.gs.score = @ + 1]))
    IN  IF m1.gs.currentCountry = Null
        THEN [m |-> Emit(m1, <<Note("error", <<"TypeError">>)>>), thrown |-> TRUE]
        ELSE IF Latlng(m1.gs.currentCountry) # <<>>
        THEN [m |-> highlightCountry(m1, m1.gs.currentCountry,
                                     Latlng(m1.gs.currentCountry)),
              thrown |-> FALSE]
        ELSE [m |-> m1, thrown |-> FALSE]

\* handleIncorrectAnswer that leaves the map alone
handleIncorrectAnswerNoHighlight(m) ==
    IF m.gs.currentCountry = Null
    THEN [m |-> Emit(m, <<Note("error", <<"TypeError">>)>>), thrown |-> TRUE]
    ELSE [m |-> updateProgressDisplay(m), thrown |-> FALSE]

\* handleIncorrectAnswer; checkAnswer evaluates correctCountry.name.common
\* before calling it, which throws when there is no current country; the
\* highlight is asked for only when the current country has coordinates
handleIncorrectAnswer(m) ==
    IF m.gs.currentCountry = Null
    THEN [m |-> Emit(m, <<Note("error", <<"TypeError">>)>>), thrown |-> TRUE]
    ELSE LET m1 == updateProgressDisplay(m)
         IN  IF Latlng(m1.gs.currentCountry) # <<>>
             THEN [m |-> highlightCountry(m1, m1.gs.currentCountry,
                                          Latlng(m1.gs.currentCountry)),
                   thrown |-> FALSE]
             ELSE [m |-> m1, thrown |-> FALSE]

\* the guard at the top of checkAnswer, without the isAnswered test
AcceptsAnswerIgnoringAnswered(gs) == gs.isGameActive

\* the guard at the top of checkAnswer: it returns at once when the question
\* is already answered or the game is not active
AcceptsAnswer(gs) == ~(gs.isAnswered \/ ~gs.isGameActive)

\* a comparison that counts every answer as correct
IsCorrectAlways(selectedIndex, correctOptionIndex) == TRUE

\* isCorrect = selectedIndex === gameState.correctOptionIndex
IsCorrect(selectedIndex, correctOptionIndex) == selectedIndex = correctOptionIndex

\* checkAnswer that moves the question index itself when it accepts an answer
checkAnswerAdvancing(m, selectedIndex) ==
    IF ~AcceptsAnswer(m.gs) THEN [m |-> m, scheduled |-> FALSE]
    ELSE LET m1 == [m EXCEPT !.gs.isAnswered = TRUE, !.gs.currentQuestion = @ + 1]
             isCorrect == IsCorrect(selectedIndex, m1.gs.correctOptionIndex)
             handled == IF isCorrect THEN handleCorrectAnswer(m1)
                        ELSE handleIncorrectAnswer(m1)
         IN  [m |-> handled.m, scheduled |-> ~handled.thrown]

\* checkAnswer up to the point where it schedules the advance; scheduled tells
\* whether setTimeout was reached
checkAnswer(m, selectedIndex) ==
    IF ~AcceptsAnswer(m.gs) THEN [m |-> m, scheduled |-> FALSE]
    ELSE LET m1 == [m EXCEPT !.gs.isAnswered = TRUE]
             isCorrect == IsCorrect(selectedIndex, m1.gs.correctOptionIndex)
             handled == IF isCorrect THEN handleCorrectAnswer(m1)
                        ELSE handleIncorrectAnswer(m1)
         IN  IF handled.thrown THEN [m |-> handled.m, scheduled |-> FALSE]
             ELSE [m |-> Emit(handled.m,
                          <<Note("highlightOptions", <<m1.gs.correctOptionIndex>>),
                            Note("showFeedback",
                                 <<isCorrect, m1.gs.currentCountry>>)>>),
                   scheduled |-> TRUE]

\* the callback checkAnswer passes to setTimeout
advance(m) ==
    LET m1 == [m EXCEPT !.gs.currentQuestion = @ + 1]
    IN  IF m1.gs.currentQuestion < m1.gs.totalQuestions
        THEN nextQuestion(m1)
        ELSE {endGame(m1)}

\* the catch block of startGame
startGameCatch(m, message) ==
    showScreen(Emit(m, <<Note("error", <<message>>), Note("hideLoading", <<>>),
                         Note("showError", <<>>)>>),
               "start")

\* the validation at the top of startGame
ValidDifficulty(difficulty) == difficulty \in {"beginner", "intermediate", "advanced"}

\* startGame that validates the difficulty only after resetting the game state
startGameInvalidAfterReset(m, difficulty) ==
    startGameCatch([m EXCEPT !.gs = resetGameState(m.gs)], "Invalid difficulty level")

\* startGame(difficulty) with a difficulty that fails the validation: the Error
\* is thrown before anything is touched and handled by the catch block
startGameInvalid(m, difficulty) == startGameCatch(m, "Invalid difficulty level")

\* startGame from the validated call up to `await fetchCountries()`
startGameBeforeAwait(m, difficulty) ==
    LET config == getDifficultyConfig(difficulty)
        m1 == Emit(m, <<Note("showLoading", <<>>)>>)
    IN  [m1 EXCEPT !.gs = [resetGameState(m1.gs) EXCEPT
                              !.difficulty = difficulty,
                              !.totalQuestions = config.questionsCount]]

\* the least pool size startGame accepts
MinPool == 4

\* startGame from the point where fetchCountries has resolved to allCountries:
\* the set of machine states it can leave
startGameAfterAwait(m, difficulty, allCountries) ==
    LET m1 == [m EXCEPT !.gs.countries =
                            getCountriesByDifficulty(allCountries, difficulty)]
    IN  IF Len(m1.gs.countries) < MinPool
        THEN {startGameCatch(m1, "Insufficient countries data for quiz")}
        ELSE LET m2 == [m1 EXCEPT !.gs.isGameActive = TRUE]
                 m3 == Emit(initializeScoreDisplay(m2), <<Note("hideLoading", <<>>)>>)
                 m4 == Emit(showScreen(m3, "game"), <<Note("showMap", <<>>)>>)
             IN  nextQuestion(m4)

\* restartGame
restartGame(m) ==
    LET m1 == clearHighlight(Emit([m EXCEPT !.gs = resetGameState(m.gs)],
                  <<Note("hideFeedback", <<>>), Note("resetOptions", <<>>),
                    Note("clearHighlight", <<>>), Note("hideMap", <<>>),
                    Note("resetMapView", <<>>)>>))
        m2 == Emit(updateScore(m1, 0, 0),
                   <<Note("updateQuestionCounter", <<0, 0>>),
                     Note("updateProgress", <<0>>), Note("hideLoading", <<>>)>>)
    IN  showScreen(m2, "start")

\* canStartGame(difficulty)
canStartGame(gs, difficulty) ==
    ValidDifficulty(difficulty) /\ ~gs.isGameActive

\* pauseGame
pauseGame(m) ==
    IF m.gs.isGameActive THEN [m EXCEPT !.gs.isGameActive = FALSE] ELSE m

\* resumeGame
resumeGame(m) ==
    IF ~m.gs.isGameActive /\ m.gs.currentQuestion < m.gs.totalQuestions
    THEN [m EXCEPT !.gs.isGameActive = TRUE]
    ELSE m

-----------------------------------------------------------------------------
(* The state machine *)

Machine == [gs |-> gameState, hl |-> currentHighlight, out |-> <<>>]

Commit(m) ==
    /\ gameState' = m.gs
    /\ currentHighlight' = m.hl
    /\ emitted' = m.out
    /\ UNCHANGED <<localStorage, now>>

Init ==
    /\ gameState = InitialGameState
    /\ timers = 0
    /\ awaiting = EmptyBag
    /\ currentHighlight = Null
    /\ emitted = <<>>
    /\ localStorage = EmptyStorage
    /\ now = 0

\* startGame(difficulty) with a difficulty outside the enumeration: the Error
\* is thrown before anything is touched and handled by the catch block
StartGameInvalid(difficulty) ==
    /\ ~ValidDifficulty(difficulty)
    /\ Commit(startGameInvalid(Machine, difficulty))
    /\ UNCHANGED <<timers, awaiting>>

\* startGame(difficulty) up to its await
StartGameBegin(difficulty) ==
    /\ ValidDifficulty(difficulty)
    /\ BagCardinality(awaiting) < MaxPending
    /\ Commit(startGameBeforeAwait(Machine, difficulty))
    /\ awaiting' = awaiting (+) SetToBag({difficulty})
    /\ UNCHANGED timers

\* fetchCountries resolves and a suspended startGame call runs to its end
StartGameResume(difficulty, allCountries) ==
    /\ BagIn(difficulty, awaiting)
    /\ awaiting' = awaiting (-) SetToBag({difficulty})
    /\ \E m \in startGameAfterAwait(Machine, difficulty, allCountries) : Commit(m)
    /\ UNCHANGED timers

\* fetchCountries rejects and a suspended startGame call runs its catch block
StartGameFetchFails(difficulty) ==
    /\ BagIn(difficulty, awaiting)
    /\ awaiting' = awaiting (-) SetToBag({difficulty})
    /\ Commit(startGameCatch(Machine,
                  "Failed to fetch countries data and no fallback available"))
    /\ UNCHANGED timers

\* checkAnswer(selectedIndex)
CheckAnswer(selectedIndex) ==
    LET res == checkAnswer(Machine, selectedIndex)
    IN  /\ res.scheduled => timers < MaxTimers
        /\ Commit(res.m)
        /\ timers' = IF res.scheduled THEN timers + 1 ELSE timers
        /\ UNCHANGED awaiting

\* a pending setTimeout callback runs
Advance ==
    /\ timers > 0
    /\ timers' = timers - 1
    /\ \E m \in advance(Machine) : Commit(m)
    /\ UNCHANGED awaiting

\* restartGame()
RestartGame ==
    /\ Commit(restartGame(Machine))
    /\ UNCHANGED <<timers, awaiting>>

\* restartSameDifficulty(): gameState.difficulty is never empty, so it always
\* calls startGame with it
RestartSameDifficulty ==
    /\ BagCardinality(awaiting) < MaxPending
    /\ Commit(startGameBeforeAwait(Machine, gameState.difficulty))
    /\ awaiting' = awaiting (+) SetToBag({gameState.difficulty})
    /\ UNCHANGED timers

Next ==
    \/ \E difficulty \in DifficultyInputs : StartGameInvalid(difficulty)
    \/ \E difficulty \in DifficultyInputs : StartGameBegin(difficulty)
    \/ \E difficulty \in SessionDifficulties, allCountries \in Datasets :
          StartGameResume(difficulty, allCountries)
    \/ \E difficulty \in SessionDifficulties : StartGameFetchFails(difficulty)
    \/ \E selectedIndex \in 0..3 : CheckAnswer(selectedIndex)
    \/ Advance
    \/ RestartGame
    \/ RestartSameDifficulty

Spec == Init /\ [][Next]_vars

-----------------------------------------------------------------------------
(* Question generation on its own: the inputs of nextQuestion's try block    *)
(* (the pool and the used list) are drawn from bounded sets and every index  *)
(* the random source can return is explored.                                 *)

\* a dataset with six countries, whose pools have 4, 5 and 6 countries
DataWorld == <<"CA", "DE", "FR", "US", "NG", "BR">>

\* the pools of at least MinPool countries the datasets give
QuestionPools ==
    {pool \in {getCountriesByDifficulty(data, d) :
                  data \in {DataWide, DataNarrow, DataWorld}, d \in Difficulties} :
        Len(pool) >= MinPool}

\* the used lists drawn: the countries of a subset of the pool, in pool order
UsedLists(pool) ==
    {SelectSeq(pool, LAMBDA c : c \in S) : S \in SUBSET Range(pool)}

InitQuestion ==
    /\ \E pool \in QuestionPools : \E used \in UsedLists(pool) :
          gameState = [InitialGameState EXCEPT !.countries = pool,
                                               !.usedCountries = used,
                                               !.isGameActive = TRUE]
    /\ timers = 0
    /\ awaiting = EmptyBag
    /\ currentHighlight = Null
    /\ emitted = <<>>
    /\ localStorage = EmptyStorage
    /\ now = 0

\* nextQuestion's try block runs once, with any draws
GenerateOnce ==
    /\ emitted = <<>>
    /\ gameState.currentCountry = Null
    /\ \E r \in PickDraws(gameState.countries, gameState.usedCountries) :
         LET picked == getRandomUnusedCountry(gameState, r)
             used == Append(picked.gs.usedCountries, picked.country)
         IN  \E js1 \in WrongAnswerDraws(picked.country, gameState.countries, 3, used),
                js2 \in ShuffleDraws(4) :
                Commit(GenerateQuestion(Machine, r, js1, js2))
    /\ UNCHANGED <<timers, awaiting>>

QuestionNext == GenerateOnce

SpecQuestion == InitQuestion /\ [][QuestionNext]_vars

-----------------------------------------------------------------------------
(* One session played from a fresh engine: startGame once, then every         *)
(* question is answered and every scheduled advance fires.                    *)

\* startGame(difficulty) on the engine as loaded
SessionStart(difficulty) ==
    /\ gameState = InitialGameState
    /\ emitted = <<>>
    /\ awaiting = EmptyBag
    /\ StartGameBegin(difficulty)

SessionNext ==
    \/ \E difficulty \in Difficulties : SessionStart(difficulty)
    \/ \E difficulty \in Difficulties, allCountries \in Datasets :
          StartGameResume(difficulty, allCountries)
    \/ \E selectedIndex \in 0..3 : CheckAnswer(selectedIndex)
    \/ Advance

\* a pending setTimeout callback is taken off the timer queue: the steps of
\* the session that do this are the Advance steps, which are enabled exactly
\* when a timer is pending
TimerFires == timers > 0 /\ timers' = timers - 1

\* the player answers every question (the option buttons stay enabled until
\* clicked) and the event loop runs every timer that is due
SpecSession ==
    /\ Init
    /\ [][SessionNext]_vars
    /\ WF_vars(\E selectedIndex \in 0..3 : CheckAnswer(selectedIndex))
    /\ WF_timers(TimerFires)

-----------------------------------------------------------------------------
(* Scripted scenario: a harness starts an intermediate session over a dataset *)
(* of exactly four countries, sets gameState.totalQuestions to a small value  *)
(* and then only answers and lets the timers fire.                            *)

MaxScenarioTotal == 6

ScenarioTotals == 4..MaxScenarioTotal

\* the sessions startGame('intermediate') gives over the four-country dataset
ScenarioStarts ==
    startGameAfterAwait(
        startGameBeforeAwait([gs |-> InitialGameState, hl |-> Null, out |-> <<>>],
                             "intermediate"),
        "intermediate", DataNarrow)

InitScenario ==
    \E m \in ScenarioStarts, total \in ScenarioTotals :
        /\ gameState = [m.gs EXCEPT !.totalQuestions = total]
        /\ currentHighlight = m.hl
        /\ emitted = m.out
        /\ timers = 0
        /\ awaiting = EmptyBag
        /\ localStorage = EmptyStorage
        /\ now = 0

ScenarioNext ==
    \/ \E selectedIndex \in 0..3 : CheckAnswer(selectedIndex)
    \/ Advance

SpecScenario == InitScenario /\ [][ScenarioNext]_vars

-----------------------------------------------------------------------------
(* Difficulty policy on its own: getDifficultyConfig and                      *)
(* getCountriesByDifficulty (as initializeCountryService calls it, with the   *)
(* difficulty it is given) applied to difficulties and datasets drawn from    *)
(* bounded sets; the call and what it returned or threw are noted in emitted. *)

\* the three tiers, two names that are no property at all, and names that
\* Object.prototype defines
PolicyInputs == Difficulties \cup {"expert", ""} \cup ObjectPrototypeKeys

\* every dataset made of countries of DataWorld, in its order
PolicyDatasets ==
    {SelectSeq(DataWorld, LAMBDA c : c \in S) : S \in SUBSET Range(DataWorld)}

GetDifficultyConfig(difficulty) ==
    /\ emitted' = <<Note("getDifficultyConfig",
                         <<difficulty, getDifficultyConfig(difficulty)>>)>>
    /\ UNCHANGED <<gameState, timers, awaiting, currentHighlight, localStorage, now>>

GetCountriesByDifficulty(countries, difficulty) ==
    /\ emitted' =
          <<Note("getCountriesByDifficulty", <<countries, difficulty>>)>>
          \o (IF countries = <<>> THEN <<>>
              ELSE <<Note("log", <<DIFFICULTY_CONFIG(difficulty)>>)>>)
          \o (IF getCountriesByDifficultyThrows(countries, difficulty)
              THEN <<Note("error", <<"TypeError">>)>>
              ELSE <<Note("return", getCountriesByDifficulty(countries, difficulty))>>)
    /\ UNCHANGED <<gameState, timers, awaiting, currentHighlight, localStorage, now>>

PolicyNext ==
    \/ \E difficulty \in PolicyInputs : GetDifficultyConfig(difficulty)
    \/ \E countries \in PolicyDatasets, difficulty \in PolicyInputs :
          GetCountriesByDifficulty(countries, difficulty)

SpecPolicy == Init /\ [][PolicyNext]_vars

-----------------------------------------------------------------------------
(* One session from a fresh engine in which pauseGame and resumeGame, which   *)
(* the engine defines and nothing in the application calls, are called too.   *)

\* pauseGame()
PauseGame ==
    /\ Commit(pauseGame(Machine))
    /\ UNCHANGED <<timers, awaiting>>

\* resumeGame()
ResumeGame ==
    /\ Commit(resumeGame(Machine))
    /\ UNCHANGED <<timers, awaiting>>

LifecycleNext ==
    \/ SessionNext
    \/ PauseGame
    \/ ResumeGame

SpecLifecycle == Init /\ [][LifecycleNext]_vars

-----------------------------------------------------------------------------
(* Pool construction on its own: getCountriesByDifficulty applied once to a   *)
(* dataset and a tier drawn from bounded sets, among them datasets with more  *)
(* countries than a tier's pool size.                                         *)

\* the small datasets, and the first 26, 61 and 151 countries of the large one
PoolDatasets ==
    PolicyDatasets \cup {Slice(DataLarge, n) : n \in {26, 61, LargeSize}}

\* getCountriesByDifficulty(countries, difficulty), called once
BuildPool(countries, difficulty) ==
    /\ emitted = <<>>
    /\ GetCountriesByDifficulty(countries, difficulty)

PoolNext ==
    \E countries \in PoolDatasets, difficulty \in Difficulties :
        BuildPool(countries, difficulty)

SpecPool == Init /\ [][PoolNext]_vars

-----------------------------------------------------------------------------
(* Question construction applied twice: a question is generated with any     *)
(* draws, then generateAnswerOptions is applied again to the same correct    *)
(* country, pool and used list, with any draws. The draws of each            *)
(* construction are noted as the values Math.random returned.                *)

\* the largest pool of the construction runs
MaxRebuildPool == 5

RebuildPools == {pool \in QuestionPools : Len(pool) <= MaxRebuildPool}

\* the draws of a Fisher-Yates pass over n elements in which every
\* Math.random() returns a value near 0 or near 1: j = 0 or j = i
RECURSIVE ExtremeShuffleDraws(_)
ExtremeShuffleDraws(n) ==
    IF n < 2 THEN {<<>>}
    ELSE {<<j>> \o rest : j \in {0, n - 1}, rest \in ExtremeShuffleDraws(n - 1)}

\* such draws for generateWrongAnswers
ExtremeWrongAnswerDraws(correctCountry, allCountries, count, usedCountries) ==
    IF correctCountry = Null \/ Len(allCountries) < count + 1 THEN {<<>>}
    ELSE ExtremeShuffleDraws(Len(CountriesToUse(correctCountry, allCountries,
                                                count, usedCountries)))

InitRebuild ==
    /\ \E pool \in RebuildPools : \E used \in UsedLists(pool) :
          gameState = [InitialGameState EXCEPT !.countries = pool,
                                               !.usedCountries = used,
                                               !.isGameActive = TRUE]
    /\ timers = 0
    /\ awaiting = EmptyBag
    /\ currentHighlight = Null
    /\ emitted = <<>>
    /\ localStorage = EmptyStorage
    /\ now = 0

\* nextQuestion's try block runs once, with any draws
BuildQuestion ==
    /\ emitted = <<>>
    /\ gameState.currentCountry = Null
    /\ \E r \in PickDraws(gameState.countries, gameState.usedCountries) :
         LET picked == getRandomUnusedCountry(gameState, r)
             used == Append(picked.gs.usedCountries, picked.country)
         IN  \E js1 \in ExtremeWrongAnswerDraws(picked.country, gameState.countries, 3, used),
                js2 \in ExtremeShuffleDraws(4) :
                Commit(Emit(GenerateQuestion(Machine, r, js1, js2),
                            <<Note("Math.random", <<js1, js2>>)>>))
    /\ UNCHANGED <<timers, awaiting>>

\* const { options, correctIndex } = generateAnswerOptions(currentCountry,
\* gameState.countries), assigned as nextQuestion assigns them
RebuildOptions ==
    /\ gameState.options # <<>>
    /\ emitted # <<>>
    /\ emitted[1].call # "generateAnswerOptions"
    /\ \E js1 \in ExtremeWrongAnswerDraws(gameState.currentCountry, gameState.countries, 3,
                                    gameState.usedCountries),
          js2 \in ExtremeShuffleDraws(4) :
          LET answerOptions == generateAnswerOptions(gameState.currentCountry,
                                   gameState.countries, gameState.usedCountries,
                                   js1, js2)
          IN  /\ answerOptions.error = ""
              /\ gameState' = [gameState EXCEPT
                                  !.options = answerOptions.options,
                                  !.correctOptionIndex = answerOptions.correctIndex]
              /\ emitted' = <<Note("generateAnswerOptions",
                                   <<gameState.currentCountry>>),
                              Note("Math.random", <<js1, js2>>)>>
    /\ UNCHANGED <<timers, awaiting, currentHighlight, localStorage, now>>

RebuildNext == BuildQuestion \/ RebuildOptions

SpecRebuild == InitRebuild /\ [][RebuildNext]_vars

-----------------------------------------------------------------------------
(* Sessions started from the difficulty buttons: handleDifficultySelection   *)
(* calls startGame only when canStartGame allows it.                         *)

\* handleDifficultySelection(difficulty), up to the await of startGame
HandleDifficultySelection(difficulty) ==
    /\ canStartGame(gameState, difficulty)
    /\ BagCardinality(awaiting) < MaxPending
    /\ Commit(startGameBeforeAwait(Emit(Machine, <<Note("showLoading", <<>>)>>),
                                    difficulty))
    /\ awaiting' = awaiting (+) SetToBag({difficulty})
    /\ UNCHANGED timers

SelectionNext ==
    \/ \E difficulty \in SessionDifficulties : HandleDifficultySelection(difficulty)
    \/ \E difficulty \in SessionDifficulties, allCountries \in Datasets :
          StartGameResume(difficulty, allCountries)
    \/ \E selectedIndex \in 0..3 : CheckAnswer(selectedIndex)
    \/ Advance

SpecSelection == Init /\ [][SelectionNext]_vars

-----------------------------------------------------------------------------
(* One session with the score display followed: the text of the score        *)
(* display is set by updateScore and stays until the next updateScore call,  *)
(* so the call that set it is kept in front of the calls of the last         *)
(* operation.                                                                *)

\* the updateScore call whose text the score display shows (the last one), as
\* a sequence of at most one note
RECURSIVE ShownScore(_)
ShownScore(notes) ==
    IF notes = <<>> THEN <<>>
    ELSE IF notes[Len(notes)].call = "updateScore" THEN <<notes[Len(notes)]>>
    ELSE ShownScore(SubSeq(notes, 1, Len(notes) - 1))

DisplayCommit(m) ==
    /\ gameState' = m.gs
    /\ currentHighlight' = m.hl
    /\ emitted' = ShownScore(emitted \o m.out) \o m.out
    /\ UNCHANGED <<localStorage, now>>

\* startGame(difficulty) on a fresh page, up to the await
DisplayStart(difficulty) ==
    /\ gameState = InitialGameState
    /\ emitted = <<>>
    /\ awaiting = EmptyBag
    /\ ValidDifficulty(difficulty)
    /\ DisplayCommit(startGameBeforeAwait(Machine, difficulty))
    /\ awaiting' = awaiting (+) SetToBag({difficulty})
    /\ UNCHANGED timers

DisplayResume(difficulty, allCountries) ==
    /\ BagIn(difficulty, awaiting)
    /\ awaiting' = awaiting (-) SetToBag({difficulty})
    /\ \E m \in startGameAfterAwait(Machine, difficulty, allCountries) :
          DisplayCommit(m)
    /\ UNCHANGED timers

DisplayCheckAnswer(selectedIndex) ==
    LET res == checkAnswer(Machine, selectedIndex)
    IN  /\ res.scheduled
        /\ timers < MaxTimers
        /\ DisplayCommit(res.m)
        /\ timers' = timers + 1
        /\ UNCHANGED awaiting

DisplayAdvance ==
    /\ timers > 0
    /\ timers' = timers - 1
    /\ \E m \in advance(Machine) : DisplayCommit(m)
    /\ UNCHANGED awaiting

DisplayNext ==
    \/ \E difficulty \in Difficulties : DisplayStart(difficulty)
    \/ \E difficulty \in Difficulties, allCountries \in Datasets :
          DisplayResume(difficulty, allCountries)
    \/ \E selectedIndex \in 0..3 : DisplayCheckAnswer(selectedIndex)
    \/ DisplayAdvance

SpecDisplay == Init /\ [][DisplayNext]_vars

-----------------------------------------------------------------------------
(* The country service's fetchCountries with its localStorage cache. Time is *)
(* counted in hours.                                                         *)

\* CACHE_DURATION = 24 * 60 * 60 * 1000 ms
CACHE_DURATION == 24

\* the last hour of the clock
MaxNow == 50

\* isCacheValid that only looks for the expiry item
isCacheValidIgnoringExpiry(storage, t) == storage.expiry # <<>>

\* isCacheValid: an expiry item exists and now < parseInt(expiryTime)
isCacheValid(storage, t) == storage.expiry # <<>> /\ t < storage.expiry[1]

\* saveToCache(countries)
saveToCache(storage, countries, t) ==
    [countries |-> <<countries>>, expiry |-> <<t + CACHE_DURATION>>]

\* loadFromCache: <<the cached array>>, or <<>> for null when the item is
\* absent
loadFromCache(storage) == storage.countries

\* getEmbeddedFallbackData: the array literal of the source
getEmbeddedFallbackData == DataEmbedded

\* the catch block of fetchCountries: the cache whatever its age, then the
\* embedded data, then the Error
fetchCountriesCatch(storage, out) ==
    LET cachedData == loadFromCache(storage)
        fallbackData == getEmbeddedFallbackData
    IN  IF cachedData # <<>> /\ cachedData[1] # <<>>
        THEN [storage |-> storage,
              out |-> out \o <<Note("log", <<"Using cached data as fallback (may be expired)">>),
                                Note("return", cachedData[1])>>]
        ELSE IF fallbackData # <<>>
        THEN [storage |-> storage,
              out |-> out \o <<Note("log", <<"Using embedded fallback data as last resort">>),
                                Note("return", fallbackData)>>]
        ELSE [storage |-> storage,
              out |-> out \o <<Note("error",
                     <<"Failed to fetch countries data and no fallback available">>)>>]

\* the requests of fetchCountries: responses[1] is the answer of the primary
\* API, responses[2] and responses[3] those of the fallback endpoints:
\* <<countries>>, or <<>> for a request that fails
RECURSIVE fetchFromSources(_, _, _, _, _)
fetchFromSources(storage, t, responses, k, out) ==
    IF k > Len(responses)
    THEN fetchCountriesCatch(storage, out)
    ELSE LET requested == out \o <<Note("fetch", <<k>>)>>
         IN  IF responses[k] # <<>> /\ (k = 1 \/ responses[k][1] # <<>>)
             THEN [storage |-> saveToCache(storage, responses[k][1], t),
                   out |-> requested \o <<Note("return", responses[k][1])>>]
             ELSE fetchFromSources(storage, t, responses, k + 1, requested)

\* fetchCountries
fetchCountries(storage, t, responses) ==
    LET cachedData == loadFromCache(storage)
        fallbackData == getEmbeddedFallbackData
    IN  IF isCacheValid(storage, t) /\ cachedData # <<>> /\ cachedData[1] # <<>>
        THEN [storage |-> storage,
              out |-> <<Note("log", <<"Using cached countries data">>),
                        Note("return", cachedData[1])>>]
        ELSE IF fallbackData # <<>>
        THEN [storage |-> saveToCache(storage, fallbackData, t),
              out |-> <<Note("log", <<"Using embedded fallback data for immediate availability">>),
                        Note("return", fallbackData)>>]
        ELSE fetchFromSources(storage, t, responses, 1, <<>>)

\* what the API can answer: nothing (the request fails) or the countries
ApiResponses == {<<>>, <<DataWide>>}

\* the cache items a page can find at load: none, countries saved by an
\* earlier visit with any expiry up to CACHE_DURATION ahead, or one item only
InitialStorages ==
    {EmptyStorage}
    \cup {[countries |-> <<DataNarrow>>, expiry |-> <<e>>] : e \in 0..CACHE_DURATION}
    \cup {[countries |-> <<DataNarrow>>, expiry |-> <<>>],
          [countries |-> <<>>, expiry |-> <<CACHE_DURATION>>]}

InitFetch ==
    /\ gameState = InitialGameState
    /\ timers = 0
    /\ awaiting = EmptyBag
    /\ currentHighlight = Null
    /\ emitted = <<>>
    /\ localStorage \in InitialStorages
    /\ now = 0

\* fetchCountries()
FetchCountries ==
    /\ \E r1, r2, r3 \in ApiResponses :
          LET res == fetchCountries(localStorage, now, <<r1, r2, r3>>)
          IN  /\ localStorage' = res.storage
              /\ emitted' = res.out
    /\ UNCHANGED <<gameState, timers, awaiting, currentHighlight, now>>

\* clearCache()
ClearCache ==
    /\ localStorage' = EmptyStorage
    /\ emitted' = <<Note("log", <<"Cache cleared">>)>>
    /\ UNCHANGED <<gameState, timers, awaiting, currentHighlight, now>>

\* an hour passes
Tick ==
    /\ now < MaxNow
    /\ now' = now + 1
    /\ UNCHANGED <<gameState, timers, awaiting, currentHighlight, emitted, localStorage>>

FetchNext == FetchCountries \/ ClearCache \/ Tick

SpecFetch == InitFetch /\ [][FetchNext]_vars

-----------------------------------------------------------------------------
(* shuffleArray on its own: the options array is drawn from bounded sets,    *)
(* with repeated elements, and shuffled once with any draws.                 *)

\* the longest array shuffled
MaxShuffleLen == 4

\* arrays of up to MaxShuffleLen elements, elements may repeat
ShuffleInputs ==
    UNION {[1..n -> {"US", "DE", "FR"}] : n \in 0..MaxShuffleLen}

InitShuffle ==
    /\ \E array \in ShuffleInputs :
          gameState = [InitialGameState EXCEPT !.options = array]
    /\ timers = 0
    /\ awaiting = EmptyBag
    /\ currentHighlight = Null
    /\ emitted = <<>>
    /\ localStorage = EmptyStorage
    /\ now = 0

\* shuffleArray(gameState.options), called once
ShuffleOptions ==
    /\ emitted = <<>>
    /\ \E js \in ShuffleDraws(Len(gameState.options)) :
          LET effect == shuffleArrayEffect(gameState.options, js)
          IN  /\ gameState' = [gameState EXCEPT !.options = effect.input]
              /\ emitted' = <<Note("shuffleArray", js),
                              Note("return", effect.result)>>
    /\ UNCHANGED <<timers, awaiting, currentHighlight, localStorage, now>>

ShuffleNext == ShuffleOptions

SpecShuffle == InitShuffle /\ [][ShuffleNext]_vars

-----------------------------------------------------------------------------
(* Properties *)

\* the notes of the last operation that are calls of `call`
Calls(notes, call) == {i \in 1..Len(notes) : notes[i].call = call}

Called(notes, call) == Calls(notes, call) # {}

\* the last operation reported an Error with this message
Reported(notes, message) ==
    \E i \in Calls(notes, "error") : notes[i].arg = <<message>>

\* no element occurs twice
Distinct(s) == \A i, j \in 1..Len(s) : i # j => s[i] # s[j]

\* C1: in every reachable state 0 <= score <= currentQuestion <= totalQuestions,
\* that is, validateGameState() returns true at every point, also between an
\* answer and the advance that follows it.
C1_ValidGameStateAlways == validateGameState(gameState)

\* C2: a question produced by question generation over a pool of at least 4
\* countries with unique ids has exactly 4 options with pairwise distinct ids,
\* contains the correct country exactly once, and
\* options[correctOptionIndex] is the correct country.
C2_QuestionWellFormed ==
    (Called(emitted, "showOptions") /\ Len(gameState.countries) >= 4
        /\ Distinct(gameState.countries))
    => /\ Len(gameState.options) = 4
       /\ Distinct(gameState.options)
       /\ Cardinality({i \in 1..4 : gameState.options[i] = gameState.currentCountry}) = 1
       /\ gameState.correctOptionIndex \in 0..3
       /\ gameState.options[gameState.correctOptionIndex + 1] = gameState.currentCountry
       /\ Range(gameState.options) \subseteq Range(gameState.countries)

\* C2 witness: a question was generated for a pool of more than four countries
\* of which some were already used, and the correct country is not the first option
C2_Witness ==
    /\ Called(emitted, "showOptions")
    /\ Len(gameState.countries) > 4
    /\ Len(gameState.usedCountries) >= 3
    /\ gameState.correctOptionIndex = 2

\* C3: the country chosen for a new question is not in usedCountries unless
\* every pool id is already used; a chosen id stays in usedCountries, which
\* changes only by a reset (new session or restart), by appending the newly
\* chosen unused country, or by the wrap-around that needs every pool id used;
\* usedCountries, the correct answers since the last reset, never holds an id
\* twice: no country is the correct answer twice before the pool is exhausted.
C3_NoRepeatUntilExhausted ==
    /\ []Distinct(gameState.usedCountries)
    /\ [][LET used == gameState.usedCountries
           chosen == gameState'.currentCountry
           exhausted == Range(gameState'.countries) \subseteq Range(used)
       IN  /\ Called(emitted', "displayFlag")
                => /\ chosen \in Range(gameState'.countries)
                   /\ chosen \in Range(used) => exhausted
                   /\ gameState'.usedCountries[Len(gameState'.usedCountries)] = chosen
           /\ gameState'.usedCountries # used
                => \/ gameState'.usedCountries = <<>>
                   \/ /\ gameState'.usedCountries = Append(used, chosen)
                      /\ chosen \notin Range(used)
                   \/ /\ gameState'.usedCountries = <<chosen>>
                      /\ exhausted
      ]_vars

\* C3 witness: the last question of a session of ten questions over a pool
\* of ten countries was generated, each country having been chosen once
C3_Witness ==
    /\ Called(emitted, "displayFlag")
    /\ gameState.isGameActive
    /\ gameState.totalQuestions = 10
    /\ Len(gameState.countries) = 10
    /\ gameState.currentQuestion = 9
    /\ Len(gameState.usedCountries) = 10

\* C4: the size of usedCountries never exceeds the pool size, and when it
\* equals the pool size the next question generation resets it so that
\* afterwards it holds exactly one id, the newly chosen country.
C4_UsedWithinPool ==
    /\ [](Len(gameState.usedCountries) <= Len(gameState.countries))
    /\ [][(Called(emitted', "displayFlag")
             /\ Len(gameState.usedCountries) = Len(gameState'.countries))
          => gameState'.usedCountries = <<gameState'.currentCountry>>]_vars

\* C5: a second checkAnswer on the same question changes nothing: score,
\* isAnswered, the question and usedCountries stay, nothing is sent to the
\* presentation or the map, and no second advance is scheduled.
C5_SecondAnswerIgnored ==
    [][\A selectedIndex \in 0..3 :
          (gameState.isAnswered /\ CheckAnswer(selectedIndex))
          => /\ gameState' = gameState
             /\ timers' = timers
             /\ currentHighlight' = currentHighlight
             /\ emitted' = <<>>
      ]_vars

\* C5 witness: an answered question of an active session, its advance still
\* pending, on which a further checkAnswer call has just returned
C5_Witness ==
    /\ gameState.isGameActive
    /\ gameState.isAnswered
    /\ gameState.score = 1
    /\ timers = 1
    /\ emitted = <<>>

\* C6: when the session is not active, checkAnswer and the delayed advance
\* leave the session state as it is and send no notification.
C6_InactiveOperationsIgnored ==
    [][(~gameState.isGameActive /\ (Advance \/ \E i \in 0..3 : CheckAnswer(i)))
       => (gameState' = gameState /\ emitted' = <<>>)]_vars

\* C7: on an active, unanswered question checkAnswer(selectedIndex) adds
\* exactly 1 to score if selectedIndex = correctOptionIndex and leaves score
\* as it is otherwise, and reports the answer as correct to the presentation
\* exactly in the first case; no other operation changes score except a reset to 0.
C7_ScoreCountsCorrectAnswers ==
    [][/\ \A selectedIndex \in 0..3 :
            (gameState.isGameActive /\ ~gameState.isAnswered
                /\ CheckAnswer(selectedIndex))
            => LET hit == (selectedIndex = gameState.correctOptionIndex)
               IN  /\ gameState'.score = gameState.score + (IF hit THEN 1 ELSE 0)
                   /\ \E i \in Calls(emitted', "showFeedback") :
                         emitted'[i].arg[1] = hit
                   /\ Cardinality(Calls(emitted', "showFeedback")) = 1
       /\ gameState'.score # gameState.score
            => \/ gameState'.score = 0
               \/ /\ gameState'.score = gameState.score + 1
                  /\ \E selectedIndex \in 0..3 : CheckAnswer(selectedIndex)
      ]_vars

\* C7 witness: a session with a correct and an incorrect answer behind it, the
\* last answer having been reported as incorrect
C7_Witness ==
    /\ gameState.isGameActive
    /\ gameState.isAnswered
    /\ gameState.score = 1
    /\ gameState.currentQuestion = 1
    /\ \E i \in Calls(emitted, "showFeedback") : emitted[i].arg[1] = FALSE

\* C8: startGame with a difficulty outside {beginner, intermediate, advanced}
\* fails with the invalid-difficulty error and changes nothing in gameState.
C8_InvalidDifficultyRejected ==
    [][/\ \A difficulty \in DifficultyInputs \ SessionDifficulties :
            StartGameInvalid(difficulty)
            => /\ Reported(emitted', "Invalid difficulty level")
               /\ gameState' = gameState
       /\ Reported(emitted', "Invalid difficulty level") => gameState' = gameState
      ]_vars

\* C8 witness: an active session with points scored on which an invalid
\* startGame call has just failed
C8_Witness ==
    /\ Reported(emitted, "Invalid difficulty level")
    /\ gameState.isGameActive
    /\ gameState.score = 2
    /\ gameState.usedCountries # <<>>

\* C9: when the difficulty-filtered pool has fewer than 4 countries startGame
\* fails with the insufficient-pool error, does not activate a session and
\* mutates nothing: gameState after the failed call equals gameState before it.
C9_InsufficientPoolNoMutation ==
    [][\A difficulty \in SessionDifficulties, allCountries \in Datasets :
          (StartGameResume(difficulty, allCountries)
              /\ Len(getCountriesByDifficulty(allCountries, difficulty)) < 4)
          => /\ Reported(emitted', "Insufficient countries data for quiz")
             /\ gameState' = gameState
      ]_vars

\* C10: after a successful startGame(difficulty): score = 0, currentQuestion = 0,
\* isAnswered = false, isGameActive = true, totalQuestions is the tier's
\* question count and the first question is generated (currentCountry set,
\* 4 options, usedCountries exactly the first country's id).
C10_StartState ==
    [][\A difficulty \in SessionDifficulties, allCountries \in Datasets :
          (StartGameResume(difficulty, allCountries)
              /\ Len(getCountriesByDifficulty(allCountries, difficulty)) >= 4)
          => /\ gameState'.score = 0
             /\ gameState'.currentQuestion = 0
             /\ ~gameState'.isAnswered
             /\ gameState'.isGameActive
             /\ gameState'.totalQuestions = getDifficultyConfig(difficulty).questionsCount
             /\ gameState'.currentCountry # Null
             /\ Len(gameState'.options) = 4
             /\ gameState'.usedCountries = <<gameState'.currentCountry>>
      ]_vars

\* C11: the advance step increments currentQuestion by exactly 1; if the new
\* value is below totalQuestions it generates the next question and resets
\* isAnswered to false, otherwise it ends the session; no question is
\* generated once currentQuestion has reached totalQuestions.
C11_AdvanceStep ==
    [][/\ Advance
            => /\ gameState'.currentQuestion = gameState.currentQuestion + 1
               /\ IF gameState'.currentQuestion < gameState'.totalQuestions
                  THEN /\ Called(emitted', "displayFlag")
                       /\ Called(emitted', "showOptions")
                       /\ ~gameState'.isAnswered
                       /\ ~Called(emitted', "showFinalResults")
                  ELSE /\ Called(emitted', "showFinalResults")
                       /\ ~gameState'.isGameActive
                       /\ ~Called(emitted', "displayFlag")
       /\ Called(emitted', "displayFlag")
            => gameState'.currentQuestion < gameState'.totalQuestions
      ]_vars

\* C12: a started session in which every question is answered and every
\* scheduled advance fires eventually ends, for any pool of at least 4
\* countries, also when totalQuestions exceeds the pool size: it ends only
\* with currentQuestion = totalQuestions, every advance follows an answer and
\* generates the next question while the index is below totalQuestions (so
\* exactly totalQuestions questions are generated and answered), and no
\* question generation fails on the way.
C12_SessionEnds ==
    /\ gameState.isGameActive
          ~> (/\ ~gameState.isGameActive
              /\ Called(emitted, "showFinalResults")
              /\ gameState.currentQuestion = gameState.totalQuestions)
    /\ [](gameState.isGameActive
            => /\ ~Called(emitted, "error")
               /\ gameState.currentCountry # Null
               /\ Len(gameState.options) = 4
               /\ gameState.currentQuestion < gameState.totalQuestions)
    /\ [][/\ (gameState.isGameActive /\ ~gameState'.isGameActive)
               => gameState'.currentQuestion = gameState'.totalQuestions
          /\ Advance
               => /\ gameState.isAnswered
                  /\ gameState'.currentQuestion = gameState.currentQuestion + 1
                  /\ gameState'.currentQuestion < gameState'.totalQuestions
                        => (Called(emitted', "displayFlag") /\ ~gameState'.isAnswered)
          /\ Called(emitted', "displayFlag")
               => (Advance \/ gameState'.currentQuestion = 0)
         ]_vars

\* C12 witness: a session of 15 questions over a pool of 4 countries has ended
\* after its fifteenth question, the used list having wrapped around
C12_Witness ==
    /\ ~gameState.isGameActive
    /\ Called(emitted, "showFinalResults")
    /\ gameState.currentQuestion = 15
    /\ gameState.totalQuestions = 15
    /\ Len(gameState.countries) = 4
    /\ gameState.score = 7

C14_CheckAnswerDoesNotAdvance ==
    [][/\ (\E selectedIndex \in 0..3 : CheckAnswer(selectedIndex))
            => /\ gameState'.currentQuestion = gameState.currentQuestion
               /\ gameState'.currentCountry = gameState.currentCountry
               /\ gameState'.options = gameState.options
               /\ gameState'.correctOptionIndex = gameState.correctOptionIndex
               /\ gameState'.usedCountries = gameState.usedCountries
               /\ gameState'.countries = gameState.countries
               /\ ~Called(emitted', "displayFlag")
               /\ ~Called(emitted', "showOptions")
       /\ gameState'.currentQuestion > gameState.currentQuestion => Advance
      ]_vars

\* C14 witness: checkAnswer has just accepted the answer to the third question
\* and scheduled the advance; the index still is 2
C14_Witness ==
    /\ gameState.isGameActive
    /\ gameState.isAnswered
    /\ gameState.currentQuestion = 2
    /\ Called(emitted, "showFeedback")
    /\ timers = 1

\* the pool countries that are neither the correct country nor used
UnusedCandidates(gs) ==
    {c \in Range(gs.countries) :
        c # gs.currentCountry /\ ~Includes(gs.usedCountries, c)}

\* C15: for the correct country, pool (at least 4 unique ids) and used list of
\* a generated question, generateWrongAnswers(correct, pool, 3, usedIds)
\* returns, whatever the shuffle draws, exactly 3 distinct pool countries, none
\* of them the correct country; if the pool minus the correct country minus
\* the used ids has at least 3 members no distractor is a used id, and the
\* same holds of the distractors among the options of the question.
C15_DistractorsAvoidUsed ==
    Called(emitted, "showOptions")
    => LET gs == gameState
       IN  /\ \A js \in WrongAnswerDraws(gs.currentCountry, gs.countries, 3,
                                          gs.usedCountries) :
                 LET wrong == generateWrongAnswers(gs.currentCountry, gs.countries,
                                                   3, gs.usedCountries, js)
                 IN  /\ Len(wrong) = 3
                     /\ Distinct(wrong)
                     /\ Range(wrong) \subseteq Range(gs.countries)
                     /\ ~Includes(wrong, gs.currentCountry)
                     /\ Cardinality(UnusedCandidates(gs)) >= 3
                           => Range(wrong) \subseteq UnusedCandidates(gs)
           /\ Cardinality(Range(gs.options) \ {gs.currentCountry}) = 3
           /\ Cardinality(UnusedCandidates(gs)) >= 3
                 => Range(gs.options) \ {gs.currentCountry} \subseteq UnusedCandidates(gs)

\* C15 witness: a question over a pool of 6 countries, 2 of them used before
\* it: the 3 other countries are its distractors
C15_Witness ==
    /\ Called(emitted, "showOptions")
    /\ Len(gameState.countries) = 6
    /\ Len(gameState.usedCountries) = 3
    /\ Range(gameState.options) \ {gameState.currentCountry} = UnusedCandidates(gameState)

\* C16: question generation never fails with 'Could not generate enough wrong
\* answers': with a pool of at least 4 countries with unique ids, whatever
\* usedCountries holds, every generation attempt produces a question.
C16_EnoughWrongAnswers ==
    /\ ~Reported(emitted, "Could not generate enough wrong answers")
    /\ (/\ Called(emitted, "clearHighlight")
        /\ Called(emitted, "hideFeedback")
        /\ Len(gameState.countries) >= MinPool)
          => (Called(emitted, "showOptions") /\ ~Called(emitted, "error"))

\* C16 witness: a question generated over a pool of 4 countries of which all
\* are used, so that its distractors come from the relaxed candidate set
C16_Witness ==
    /\ Called(emitted, "showOptions")
    /\ Len(gameState.countries) = 4
    /\ Len(gameState.usedCountries) = 4
    /\ gameState.currentQuestion = 3

\* C17: getDifficultyConfig is total: for beginner, intermediate and advanced
\* it returns pool size / question count 25/10, 60/15 and 150/20, and for any
\* other input the beginner configuration; getCountriesByDifficulty falls
\* back to the beginner configuration in the same way and does not fail.
C17_ConfigTotal ==
    /\ \A i \in Calls(emitted, "getDifficultyConfig") :
          LET difficulty == emitted[i].arg[1]
              config == emitted[i].arg[2]
          IN  /\ difficulty = "beginner"
                    => (config.countries = 25 /\ config.questionsCount = 10)
              /\ difficulty = "intermediate"
                    => (config.countries = 60 /\ config.questionsCount = 15)
              /\ difficulty = "advanced"
                    => (config.countries = 150 /\ config.questionsCount = 20)
              /\ difficulty \notin Difficulties
                    => config = getDifficultyConfig("beginner")
    /\ Called(emitted, "getCountriesByDifficulty")
          => /\ ~Called(emitted, "error")
             /\ Called(emitted, "return")
    /\ \A i \in Calls(emitted, "log") :
          emitted[1].arg[2] \notin Difficulties
             => emitted[i].arg = <<DIFFICULTY_CONFIG("beginner")>>

\* C18: endGame sets isGameActive to false and clears the current question;
\* at every point currentCountry is non-null if and only if the session is
\* active (with a question generated and not yet advanced past).
C18_CurrentQuestionIffActive ==
    /\ (gameState.currentCountry # Null) <=> gameState.isGameActive
    /\ Called(emitted, "showFinalResults")
          => (~gameState.isGameActive /\ gameState.currentCountry = Null)

\* C19: the results payload built by endGame has accuracy = the integer
\* nearest to 100 * score / currentQuestion (halves rounded up; 0 when
\* currentQuestion is 0), between 0 and 100; when the session was played to
\* completion (currentQuestion = totalQuestions) this is the integer nearest
\* to 100 * score / totalQuestions.
C19_FinalAccuracy ==
    \A i \in Calls(emitted, "showFinalResults") :
        LET score == emitted[i].arg[1]
            total == emitted[i].arg[2]
            accuracy == emitted[i].arg[3]
            questionsAnswered == emitted[i].arg[4]
        IN  /\ score = gameState.score
            /\ questionsAnswered = gameState.currentQuestion
            /\ total = gameState.totalQuestions
            /\ questionsAnswered = 0 => accuracy = 0
            /\ questionsAnswered > 0
                  => /\ -questionsAnswered <= 200 * score - 2 * accuracy * questionsAnswered
                     /\ 200 * score - 2 * accuracy * questionsAnswered < questionsAnswered
            /\ accuracy \in 0..100
            /\ questionsAnswered = total
                  => /\ -total <= 200 * score - 2 * accuracy * total
                     /\ 200 * score - 2 * accuracy * total < total

\* C20: on every accepted answer, correct or incorrect, the map is asked
\* exactly once to highlight the correct country of the current question,
\* with its id and its coordinates, and that country becomes the highlight.
C20_HighlightOnEveryAnswer ==
    [][\A selectedIndex \in 0..3 :
          (AcceptsAnswer(gameState) /\ CheckAnswer(selectedIndex))
          => /\ Cardinality(Calls(emitted', "highlightCountry")) = 1
             /\ \A i \in Calls(emitted', "highlightCountry") :
                   emitted'[i].arg = <<gameState.currentCountry,
                                       Latlng(gameState.currentCountry)>>
             /\ Len(Latlng(gameState.currentCountry)) = 2
             /\ currentHighlight' = gameState.currentCountry
      ]_vars

\* C20 witness: an incorrect answer has just been accepted and the map shows
\* the correct country of the question
C20_Witness ==
    /\ gameState.isAnswered
    /\ gameState.score = 0
    /\ gameState.currentQuestion = 1
    /\ Called(emitted, "highlightCountry")
    /\ \E i \in Calls(emitted, "showFeedback") : emitted[i].arg[1] = FALSE
    /\ currentHighlight = gameState.currentCountry

\* C21: no two engine operations are in flight at once: while a startGame
\* call is suspended awaiting the country data, no second startGame begins and
\* no answer is accepted and no advance runs against gameState.
C21_NoConcurrentOperations ==
    [][awaiting # EmptyBag
          => /\ BagCardinality(awaiting') <= BagCardinality(awaiting)
             /\ ~(AcceptsAnswer(gameState) /\ \E selectedIndex \in 0..3 :
                                                 CheckAnswer(selectedIndex))
             /\ ~Advance
      ]_vars

\* C22: restartSameDifficulty starts the new session with the difficulty of
\* the most recently played session, whatever happened in between: it calls
\* startGame with gameState.difficulty, and gameState.difficulty, the engine's
\* only record of the last session's difficulty, changes only when a startGame
\* call begins (so not by restartGame, an answer, an advance or the end of a
\* game).
C22_RestartKeepsDifficulty ==
    [][/\ RestartSameDifficulty
            => /\ gameState'.difficulty = gameState.difficulty
               /\ BagIn(gameState.difficulty, awaiting')
       /\ gameState'.difficulty # gameState.difficulty
            => BagCardinality(awaiting') > BagCardinality(awaiting)
      ]_vars

\* a session has ended: it had a question and is not active, and endGame has
\* just shown the results or every question was played (this tells an ended
\* session from one that pauseGame has stopped)
Ended ==
    /\ ~gameState.isGameActive
    /\ gameState.currentCountry # Null
    /\ \/ Called(emitted, "showFinalResults")
       \/ gameState.currentQuestion >= gameState.totalQuestions

\* C23: once a session has ended, isGameActive stays false, no question is
\* generated and the score does not change until startGame (or a restart) is
\* called again.
C23_EndedStaysEnded ==
    [][(/\ Ended
        /\ BagCardinality(awaiting') <= BagCardinality(awaiting)
        /\ ~RestartGame)
          => /\ ~gameState'.isGameActive
             /\ ~Called(emitted', "displayFlag")
             /\ gameState'.score = gameState.score
      ]_vars

\* C24: the pool (gameState.countries), totalQuestions and difficulty are not
\* modified by checkAnswer, by the advance step or by the question generation
\* the advance step runs.
C24_SessionParametersFixed ==
    [][(Advance \/ \E selectedIndex \in 0..3 : CheckAnswer(selectedIndex))
          => /\ gameState'.countries = gameState.countries
             /\ gameState'.totalQuestions = gameState.totalQuestions
             /\ gameState'.difficulty = gameState.difficulty
      ]_vars

\* C24 witness: the advance step has generated the fourth question of an
\* intermediate session over the ten countries of the embedded dataset
C24_Witness ==
    /\ gameState.isGameActive
    /\ Called(emitted, "displayFlag")
    /\ gameState.currentQuestion = 3
    /\ gameState.difficulty = "intermediate"
    /\ gameState.totalQuestions = 15
    /\ Len(gameState.countries) = 10

\* C25: in every reachable state usedCountries holds only ids of countries of
\* the current pool and holds no id twice.
C25_UsedSubsetOfPool ==
    /\ Range(gameState.usedCountries) \subseteq Range(gameState.countries)
    /\ Distinct(gameState.usedCountries)

\* C26: a failed question generation does not leave the engine active with a
\* current country, options and correctOptionIndex that belong to different
\* questions: while the session is active the option at correctOptionIndex is
\* the current country, and after a generation that failed the session is not
\* active, so that no answer is scored against such a state.
C26_NoMixedQuestion ==
    /\ (gameState.isGameActive /\ gameState.currentCountry # Null)
          => /\ Len(gameState.options) = 4
             /\ gameState.options[gameState.correctOptionIndex + 1]
                   = gameState.currentCountry
    /\ (\/ Reported(emitted, "Insufficient data to generate answer options")
        \/ Reported(emitted, "Could not generate enough wrong answers")
        \/ Reported(emitted, "No country available for question"))
          => ~gameState.isGameActive

\* C27: the pool built for a tier is made of region-matching countries of the
\* reference set, has the tier's pool size (or all matching countries, if
\* they are fewer), and every country in it has a population greater than or
\* equal to that of every region-matching country left out, for beginner,
\* intermediate and advanced.
C27_PoolMostPopulous ==
    \A i \in Calls(emitted, "getCountriesByDifficulty") :
        LET countries == emitted[i].arg[1]
            config == DIFFICULTY_CONFIG(emitted[i].arg[2])
            matching == SelectSeq(countries,
                          LAMBDA c : config.regions = {"all"}
                                       \/ Region(c) \in config.regions)
            pool == emitted[Len(emitted)].arg
            leftOut == Range(matching) \ Range(pool)
        IN  /\ Called(emitted, "return")
            /\ Range(pool) \subseteq Range(matching)
            /\ Len(pool) = IF Len(matching) < config.countries
                           THEN Len(matching) ELSE config.countries
            /\ \A c \in Range(pool), x \in leftOut : Population(c) >= Population(x)

\* C28: the pool of a started session has at most the tier's pool size
\* entries, and every country in it belongs to a region that the engine's
\* getDifficultyConfig reports for the session's difficulty (any region when
\* the region set is "all").
C28_PoolWithinEnginePolicy ==
    gameState.isGameActive
        => LET config == getDifficultyConfig(gameState.difficulty)
           IN  /\ Len(gameState.countries) <= config.countries
               /\ \A c \in Range(gameState.countries) :
                     config.regions = {"all"} \/ Region(c) \in config.regions

\* C29: in every reachable state the statistics derived from the session
\* state are consistent: remainingQuestions and incorrectAnswers of
\* getScoreStatistics are not negative and calculateProgress lies in 0..100.
C29_StatisticsConsistent ==
    /\ getScoreStatistics(gameState).remainingQuestions >= 0
    /\ getScoreStatistics(gameState).incorrectAnswers >= 0
    /\ calculateProgress(gameState) \in 0..100

Idle ==
    /\ gameState = InitialGameState
    /\ awaiting = EmptyBag

\* C31: once the session is idle (as restartGame leaves it), it stays idle,
\* with isGameActive false, currentQuestion 0, score 0 and no results shown,
\* in every step that is not a call of startGame, also when a feedback timer
\* of the abandoned session is still pending.
C31_IdleUntilStartGame ==
    [][(Idle /\ BagCardinality(awaiting') <= BagCardinality(awaiting))
          => /\ ~gameState'.isGameActive
             /\ gameState'.currentQuestion = 0
             /\ gameState'.score = 0
             /\ ~Called(emitted', "showFinalResults") ]_vars

\* C32: in an active session whose displayed question has not been answered,
\* no timer callback is due from that session, so a timer that fires then
\* (one left pending by an earlier session) neither increases currentQuestion
\* nor replaces the displayed question.
C32_NoStaleAdvance ==
    [][(/\ timers' < timers
        /\ gameState.isGameActive
        /\ ~gameState.isAnswered)
          => /\ gameState'.currentQuestion = gameState.currentQuestion
             /\ gameState'.currentCountry = gameState.currentCountry
             /\ ~Called(emitted', "displayFlag") ]_vars

\* C33: in every reachable state score <= currentQuestion + 1, so the
\* accuracy getGameStatus reports, round(100 * score / (currentQuestion + 1)),
\* is at most 100.
C33_LiveAccuracyAtMost100 ==
    /\ gameState.score <= gameState.currentQuestion + 1
    /\ getGameStatus(gameState).accuracy <= 100

\* C34: the final results are shown (endGame runs) only by a step that
\* completes an active session, which brings currentQuestion to
\* totalQuestions after an answer; since endGame deactivates the session, the
\* results are shown once for it, and never for a session that restartGame
\* abandoned.
C34_ResultsOnlyOnCompletion ==
    [][Called(emitted', "showFinalResults")
          => /\ gameState.isGameActive
             /\ gameState.isAnswered
             /\ gameState'.currentQuestion = gameState'.totalQuestions ]_vars

\* C35: whenever a session is active, totalQuestions is the question count of
\* the tier of gameState.difficulty and gameState.countries is the pool that
\* getCountriesByDifficulty builds for gameState.difficulty from the country
\* data, also when startGame calls with different difficulties overlap.
C35_SessionMatchesDifficulty ==
    gameState.isGameActive
        => /\ gameState.totalQuestions
                 = getDifficultyConfig(gameState.difficulty).questionsCount
           /\ \E allCountries \in Datasets :
                 gameState.countries
                     = getCountriesByDifficulty(allCountries, gameState.difficulty)

\* C36: after every accepted answer, correct or incorrect, the score display
\* shows the current score together with the number of questions answered so
\* far, currentQuestion + 1.
C36_ScoreDisplayCurrent ==
    (gameState.isGameActive /\ gameState.isAnswered)
        => /\ ShownScore(emitted) # <<>>
           /\ ShownScore(emitted)[1].arg
                 = <<gameState.score, gameState.currentQuestion + 1>>

\* C37: the map holds at most the one highlight currentHighlight refers to,
\* and none while a question is displayed and not yet answered: the highlight
\* of a question is gone when the next question has been shown and after a
\* restart.
C37_NoHighlightOnOpenQuestion ==
    /\ (gameState.isGameActive /\ ~gameState.isAnswered)
          => currentHighlight = Null
    /\ (Called(emitted, "displayFlag") \/ Called(emitted, "resetMapView"))
          => currentHighlight = Null

\* the third question of a session is displayed, unanswered, after the first
\* two were answered and highlighted
C37_Witness ==
    /\ gameState.isGameActive
    /\ ~gameState.isAnswered
    /\ gameState.currentQuestion = 2
    /\ Len(gameState.usedCountries) = 3
    /\ Called(emitted, "displayFlag")
    /\ currentHighlight = Null

\* the last operation returned the countries it loaded from the cache
ServedFromCache(notes) ==
    \E i \in Calls(notes, "log") :
        notes[i].arg \in {<<"Using cached countries data">>,
                          <<"Using cached data as fallback (may be expired)">>}

ServedEmbedded(notes) ==
    \E i \in Calls(notes, "log") :
        notes[i].arg \in {<<"Using embedded fallback data for immediate availability">>,
                          <<"Using embedded fallback data as last resort">>}

\* C39: fetchCountries returns the embedded dataset only after the live API
\* was requested and did not supply data and when the cache holds no
\* countries.
C39_EmbeddedOnlyAsLastResort ==
    [][(now' = now /\ ServedEmbedded(emitted'))
          => /\ Called(emitted', "fetch")
             /\ (localStorage.countries = <<>> \/ localStorage.countries = << <<>> >>) ]_vars

\* number of positions of s that hold c
Occurrences(s, c) == Cardinality({i \in 1..Len(s) : s[i] = c})

\* C40: for every sequence of draws shuffleArray returns a permutation of its
\* input, with the same length and every element as many times as in the
\* input, and the array passed in is the same after the call.
C40_ShuffleIsPermutation ==
    [][Called(emitted', "shuffleArray")
          => LET shuffled == emitted'[Len(emitted')].arg
             IN  /\ gameState'.options = gameState.options
                 /\ Len(shuffled) = Len(gameState.options)
                 /\ \A c \in Range(gameState.options) \cup Range(shuffled) :
                       Occurrences(shuffled, c) = Occurrences(gameState.options, c) ]_vars

\* an array of four with a repeated element came back in another order
C40_Witness ==
    /\ Called(emitted, "shuffleArray")
    /\ gameState.options = <<"US", "DE", "US", "FR">>
    /\ emitted[Len(emitted)].arg = <<"FR", "US", "DE", "US">>

====
